---- MODULE Spec2Model ----
(***************************************************************************)
(* The generated CRUD endpoints of backend/app/api/endpoint_generator:     *)
(* the six handlers of EndpointGenerator (generator.py), the list pipeline *)
(* set_status -> set_filters -> set_sorting -> set_offset_limit            *)
(* (params_funcs.py) and the synthesized filter collector                  *)
(* (filter_generator.py).                                                  *)
(*                                                                         *)
(* Modelling decisions.                                                    *)
(*  - The record type is City (models.py) with the columns id, created_at, *)
(*    status_id, name and region_id; the audit columns created_by,         *)
(*    updated_at and updated_by appear in the column descriptor only.      *)
(*  - The table is a function from primary keys to rows.  It is external   *)
(*    storage: the initial table is any table of at most MaxRows rows,     *)
(*    in any status (the handlers themselves never write "inactive").      *)
(*  - created_at is a logical timestamp: the row with id i was created at  *)
(*    tick i.                                                              *)
(*  - Python strings that the code takes apart (sort strings, in-lists,    *)
(*    names matched by ILIKE, keys of the filter mapping) are sequences of *)
(*    one-character strings; Str gives the characters of a name.           *)
(*  - An Optional value is a sequence of length 0 (None) or 1.             *)
(*  - An entry of the filter mapping carries, with its value, the Python   *)
(*    type of the value.                                                   *)
(*  - A query without ORDER BY returns rows in primary-key order.          *)
(*  - Every round trip to the database is a step of its own: the two       *)
(*    queries of set_offset_limit, and the lookup, the commit and the      *)
(*    refresh of create, update, delete and restore.  Between the steps of *)
(*    a request the other requests commit (each session reads committed    *)
(*    data and takes no lock).                                             *)
(***************************************************************************)
EXTENDS Integers, Sequences, FiniteSets, TLC

\* ------------------------------------------------------------------ bounds
MaxRows == 2
MaxPage == 2
MaxPerPage == 2
MaxTotal == 7
MaxPagerPage == 3
MaxPagerPerPage == 4
MaxSortLen == 4
MaxInLen == 3
MaxFilters == 2
MaxColumns == 2

\* -------------------------------------------------------------- constants
DefaultPage == 1
DefaultPerPage == 50
PerPageLimit == 1000

\* rows: the table.  inflight[s]: the request of session s that has run its
\* first query and not yet its last step (<<>> when it has none).  response[s]:
\* the last answer session s received.  call: the function call under test.
VARIABLES rows, inflight, response, call
vars == <<rows, inflight, response, call>>

\* session 1 is the caller whose requests and answers the properties observe
lst == inflight[1]

resp == response[1]

\* ------------------------------------------------------------ data model
Status == {"active", "inactive", "deleted"}

Names == {<<"a">>, <<"A", "b">>}

\* region_id: None, or the id of a region
Regions == {<<>>, <<1>>}

Row == [status_id : Status, name : Names, region_id : Regions]

Ids == 1..(MaxRows + 1)

Tables == UNION {[1..n -> Row] : n \in 0..MaxRows}

Max(S) == CHOOSE x \in S : \A y \in S : y <= x

NextId(t) == Max(DOMAIN t \cup {0}) + 1

CreatedAt(id) == id

Public(t, id) ==
    [id |-> id, status_id |-> t[id].status_id, name |-> t[id].name,
     region_id |-> t[id].region_id]

NoCall == [fn |-> "none"]

\* ------------------------------------------------------ string helpers
RECURSIVE SplitAcc(_, _, _)
SplitAcc(s, sep, cur) ==
    IF s = <<>> THEN <<cur>>
    ELSE IF Head(s) = sep THEN <<cur>> \o SplitAcc(Tail(s), sep, <<>>)
    ELSE SplitAcc(Tail(s), sep, Append(cur, Head(s)))

Split(s, sep) == SplitAcc(s, sep, <<>>)

\* s.split(sep) for a separator of any length
RECURSIVE SplitStrAcc(_, _, _)
SplitStrAcc(s, sep, cur) ==
    IF s = <<>> THEN <<cur>>
    ELSE IF Len(s) >= Len(sep) /\ SubSeq(s, 1, Len(sep)) = sep
         THEN <<cur>> \o SplitStrAcc(SubSeq(s, Len(sep) + 1, Len(s)), sep, <<>>)
    ELSE SplitStrAcc(Tail(s), sep, Append(cur, Head(s)))

SplitStr(s, sep) == SplitStrAcc(s, sep, <<>>)

\* s.startswith(prefix)
StartsWith(s, prefix) == Len(s) >= Len(prefix) /\ SubSeq(s, 1, Len(prefix)) = prefix

\* the characters of the names and literals of the program
Str(s) ==
    CASE s = "" -> <<>>
      [] s = "__" -> <<"_", "_">>
      [] s = "id" -> <<"i", "d">>
      [] s = "name" -> <<"n", "a", "m", "e">>
      [] s = "region_id" -> <<"r", "e", "g", "i", "o", "n", "_", "i", "d">>
      [] s = "status_id" -> <<"s", "t", "a", "t", "u", "s", "_", "i", "d">>
      [] s = "created_at" -> <<"c", "r", "e", "a", "t", "e", "d", "_", "a", "t">>
      [] s = "created_by" -> <<"c", "r", "e", "a", "t", "e", "d", "_", "b", "y">>
      [] s = "updated_at" -> <<"u", "p", "d", "a", "t", "e", "d", "_", "a", "t">>
      [] s = "updated_by" -> <<"u", "p", "d", "a", "t", "e", "d", "_", "b", "y">>
      [] s = "nope" -> <<"n", "o", "p", "e">>
      [] s = "a__b" -> <<"a", "_", "_", "b">>
      [] s = "eq" -> <<"e", "q">>
      [] s = "ilike" -> <<"i", "l", "i", "k", "e">>
      [] s = "like" -> <<"l", "i", "k", "e">>
      [] s = "in" -> <<"i", "n">>
      [] s = "gte" -> <<"g", "t", "e">>
      [] s = "lte" -> <<"l", "t", "e">>
      [] s = "gt" -> <<"g", "t">>
      [] s = "lt" -> <<"l", "t">>
      [] s = "between" -> <<"b", "e", "t", "w", "e", "e", "n">>

RECURSIVE LStrip(_)
LStrip(s) == IF s # <<>> /\ Head(s) = " " THEN LStrip(Tail(s)) ELSE s

RECURSIVE RStrip(_)
RStrip(s) ==
    IF s # <<>> /\ s[Len(s)] = " " THEN RStrip(SubSeq(s, 1, Len(s) - 1)) ELSE s

Strip(s) == RStrip(LStrip(s))

Digits == {"0", "1", "2", "3", "4", "5", "6", "7", "8", "9"}

DigitValue(c) ==
    CASE c = "0" -> 0 [] c = "1" -> 1 [] c = "2" -> 2 [] c = "3" -> 3
      [] c = "4" -> 4 [] c = "5" -> 5 [] c = "6" -> 6 [] c = "7" -> 7
      [] c = "8" -> 8 [] c = "9" -> 9

RECURSIVE DecimalValue(_)
DecimalValue(s) ==
    IF s = <<>> THEN 0
    ELSE 10 * DecimalValue(SubSeq(s, 1, Len(s) - 1)) + DigitValue(s[Len(s)])

\* int(x) on the alphabet of the model: <<v>> for a digit string, <<>> for ValueError
int(s) ==
    LET t == Strip(s)
    IN IF t # <<>> /\ \A i \in DOMAIN t : t[i] \in Digits
       THEN <<DecimalValue(t)>> ELSE <<>>

Lower(c) == CASE c = "A" -> "a" [] c = "B" -> "b" [] OTHER -> c

\* s ILIKE pattern, with the wildcards % and _
RECURSIVE ILike(_, _)
ILike(s, p) ==
    IF p = <<>> THEN s = <<>>
    ELSE IF Head(p) = "%"
         THEN ILike(s, Tail(p)) \/ (s # <<>> /\ ILike(Tail(s), p))
    ELSE /\ s # <<>>
         /\ (Head(p) = "_" \/ Lower(Head(s)) = Lower(Head(p)))
         /\ ILike(Tail(s), Tail(p))

\* ------------------------------------------- filter parameter synthesizer
\* inspect(City).columns: the fields of CityBase, then those of SuperBase
Columns ==
    << [name |-> "name",       type |-> "AutoString"],
       [name |-> "region_id",  type |-> "Integer"],
       [name |-> "id",         type |-> "Integer"],
       [name |-> "created_at", type |-> "DateTime"],
       [name |-> "created_by", type |-> "Integer"],
       [name |-> "updated_at", type |-> "DateTime"],
       [name |-> "updated_by", type |-> "Integer"],
       [name |-> "status_id",  type |-> "Enum"] >>

exclude_fields == {"created_by", "updated_by", "updated_at", "status_id"}

\* the keys of TYPE_OPERATORS and of type_mapping, in the order of the dicts
MappedTypes == <<"String", "AutoString", "Integer", "Float", "DateTime", "Boolean">>

\* the type tags of the model and the classes each is an instance of: Enum and
\* Text derive from String, BigInteger from Integer, TIMESTAMP from DateTime;
\* AutoString is a TypeDecorator, Date and Numeric derive from none of the keys
SqlTypes ==
    {"String", "AutoString", "Integer", "Float", "DateTime", "Boolean",
     "Enum", "Text", "BigInteger", "TIMESTAMP", "Date", "Numeric"}

isinstance(type, sql_type) ==
    \/ type = sql_type
    \/ type \in {"Enum", "Text"} /\ sql_type = "String"
    \/ type = "BigInteger" /\ sql_type = "Integer"
    \/ type = "TIMESTAMP" /\ sql_type = "DateTime"

\* the first key the type is an instance of, in dict order: <<key>>, or <<>>
RECURSIVE FirstMatch(_, _)
FirstMatch(type, i) ==
    IF i > Len(MappedTypes) THEN <<>>
    ELSE IF isinstance(type, MappedTypes[i]) THEN <<MappedTypes[i]>>
    ELSE FirstMatch(type, i + 1)

TYPE_OPERATORS(type) ==
    CASE type = "String"     -> <<"eq", "like", "in">>
      [] type = "AutoString" -> <<"eq", "like", "in">>
      [] type = "Integer"    -> <<"eq", "in">>
      [] type = "Float"      -> <<"eq">>
      [] type = "DateTime"   -> <<"gte", "lte", "gt", "lt">>
      [] type = "Boolean"    -> <<"eq">>


\* the suffix of the key, after the name of the field
OPERATOR_MAPPING(operator) ==
    CASE operator = "eq"   -> Str("")
      [] operator = "like" -> Str("__") \o Str("ilike")
      [] operator = "gt"   -> Str("__") \o Str("gt")
      [] operator = "gte"  -> Str("__") \o Str("gte")
      [] operator = "lt"   -> Str("__") \o Str("lt")
      [] operator = "lte"  -> Str("__") \o Str("lte")
      [] operator = "in"   -> Str("__") \o Str("in")


\* mutant: no column is excluded
ModelFields_all(columns) == columns

\* _get_model_fields of a generator built for the columns
ModelFields(columns) == SelectSeq(columns, LAMBDA c : c.name \notin exclude_fields)

_get_model_fields == ModelFields(Columns)

type_mapping(sql_type) ==
    CASE sql_type \in {"String", "AutoString"} -> "str"
      [] sql_type = "Integer"  -> "int"
      [] sql_type = "Float"    -> "float"
      [] sql_type = "DateTime" -> "datetime"
      [] sql_type = "Boolean"  -> "bool"

_get_python_type(type) ==
    IF FirstMatch(type, 1) # <<>> THEN type_mapping(FirstMatch(type, 1)[1]) ELSE "str"

_get_operators_for_type(type) ==
    IF FirstMatch(type, 1) # <<>> THEN TYPE_OPERATORS(FirstMatch(type, 1)[1])
    ELSE <<"eq">>

\* the (field, operator) pairs in the order of the two nested loops
RECURSIVE FieldParams(_, _, _)
FieldParams(field, operators, i) ==
    IF i > Len(operators) THEN <<>>
    ELSE <<[field |-> field.name, type |-> field.type, operator |-> operators[i]]>>
         \o FieldParams(field, operators, i + 1)

RECURSIVE SynthParams(_, _)
SynthParams(fields, i) ==
    IF i > Len(fields) THEN <<>>
    ELSE FieldParams(fields[i], _get_operators_for_type(fields[i].type), 1)
         \o SynthParams(fields, i + 1)

\* function_params of generate_filter_function for the columns
FunctionParams(columns) == SynthParams(ModelFields(columns), 1)

function_params == FunctionParams(Columns)

ParamName(fp) == <<fp.field, fp.operator>>

\* the request's filter parameters p: the parameters that are given (not None),
\* each with its value, as a sequence of [name, value] with distinct names
Given(p, n) == \E i \in DOMAIN p : p[i].name = n

Arg(p, n) == p[CHOOSE i \in DOMAIN p : p[i].name = n].value


\* mutant: the elements that are integers are kept, the others skipped
IntList_partial(param) ==
    LET elems == SelectSeq(Split(param, ","), LAMBDA e : int(e) # <<>>)
    IN << [i \in DOMAIN elems |-> int(elems[i])[1]] >>

\* [int(x.strip()) for x in param.split(',')]: <<list>>, or <<>> on ValueError
IntList(param) ==
    LET elems == Split(param, ",")
    IN IF \A i \in DOMAIN elems : int(elems[i]) # <<>>
       THEN << [i \in DOMAIN elems |-> int(elems[i])[1]] >>
       ELSE <<>>

StrList(param) ==
    LET elems == Split(param, ",") IN [i \in DOMAIN elems |-> Strip(elems[i])]

\* the statements generated for one (field, operator): the entry it adds.
\* type is the Python type of the value: FastAPI has parsed the parameter to
\* the type of its annotation
FilterEntry(p, fp) ==
    LET param == ParamName(fp)
        fastcrud_key == Str(fp.field) \o OPERATOR_MAPPING(fp.operator)
    IN IF ~Given(p, param) THEN <<>>
       ELSE IF fp.operator = "like"
            THEN IF Arg(p, param) # <<>>
                 THEN <<[key |-> fastcrud_key, type |-> "str",
                         value |-> <<"%">> \o Arg(p, param) \o <<"%">>]>>
                 ELSE <<>>
       ELSE IF fp.operator \in {"in", "not_in"}
            THEN IF Arg(p, param) = <<>> THEN <<>>
                 ELSE IF _get_python_type(fp.type) = "int"
                      THEN IF IntList(Arg(p, param)) # <<>>
                           THEN <<[key |-> fastcrud_key, type |-> "list",
                                   value |-> IntList(Arg(p, param))[1]]>>
                           ELSE <<>>
                      ELSE <<[key |-> fastcrud_key, type |-> "list",
                              value |-> StrList(Arg(p, param))]>>
       ELSE <<[key |-> fastcrud_key, type |-> _get_python_type(fp.type),
               value |-> Arg(p, param)]>>

\* the body generated for the parameters fps, from the i-th on
RECURSIVE Collect(_, _, _)
Collect(fps, p, i) ==
    IF i > Len(fps) THEN <<>>
    ELSE FilterEntry(p, fps[i]) \o Collect(fps, p, i + 1)

CollectFrom(p, i) == Collect(function_params, p, i)

\* generated_filter_function on the given parameters p: the filter mapping, a
\* sequence of [key, value] in insertion order
generated_filter_function(p) == CollectFrom(p, 1)

FilterKeys(filters) == {filters[i].key : i \in DOMAIN filters}

\* ------------------------------------------------------ predicate composer
select == [where |-> <<>>, window |-> <<>>]

Where(statement, cond) == [statement EXCEPT !.where = Append(@, cond)]

\* statement.where(model_db.status_id == status): [ok, statement], or
\* [ok, code] when the model has no attribute status_id (AttributeError)
set_status(statement, model_db, status) ==
    IF \E i \in DOMAIN model_db : model_db[i].name = "status_id"
    THEN [ok |-> TRUE,
          statement |-> Where(statement, [column |-> "status_id", op |-> "eq",
                                          value |-> status])]
    ELSE [ok |-> FALSE, code |-> 500]

SQLOperators == {"eq", "ilike", "in", "gte", "lte", "gt", "lt"}

\* elems = k.split("__"); begin = elems[0]
KeyColumn(k) == SplitStr(k, Str("__"))[1]

\* end = elems[1] if there is one, SQLOperators.eq otherwise
KeyOperator(k) ==
    IF Len(SplitStr(k, Str("__"))) > 1 THEN SplitStr(k, Str("__"))[2] ELSE Str("eq")

\* getattr(model_db, begin, None) on the model with the columns model_db:
\* <<name of the column>>, or <<>> for None
getattr(model_db, begin) ==
    LET found == {i \in DOMAIN model_db : Str(model_db[i].name) = begin}
    IN IF found = {} THEN <<>> ELSE <<model_db[CHOOSE i \in found : TRUE].name>>

\* the member of SQLOperators that end is equal to: <<member>>, or <<>>
Operator(end) ==
    LET found == {o \in SQLOperators : Str(o) = end}
    IN IF found = {} THEN <<>> ELSE <<CHOOSE o \in found : TRUE>>

\* the first loop of set_filters: v.isoformat() for every key that starts with
\* created_at; a value that is not a datetime has no isoformat (AttributeError)
IsoformatRaises(filters) ==
    \E i \in DOMAIN filters :
       StartsWith(filters[i].key, Str("created_at")) /\ filters[i].type # "datetime"

\* one turn of the second loop of set_filters: [ok, statement], or [ok, code]
\* when it raises.  For a column that getattr does not find, the
\* HTTPException(400) is built and dropped (there is no raise) and column stays
\* None: None == v is False, so eq adds the condition false; the other
\* operators are methods or order comparisons of None and raise AttributeError
\* or TypeError (a 500).  An end that is no member of SQLOperators raises 422.
FilterStep(model_db, statement, entry) ==
    LET begin == KeyColumn(entry.key)
        end == KeyOperator(entry.key)
        column == getattr(model_db, begin)
    IN IF Operator(end) = <<>> THEN [ok |-> FALSE, code |-> 422]
       ELSE IF column = <<>>
            THEN IF Operator(end)[1] = "eq"
                 THEN [ok |-> TRUE,
                       statement |-> Where(statement, [column |-> "", op |-> "false",
                                                       value |-> FALSE])]
                 ELSE [ok |-> FALSE, code |-> 500]
       ELSE [ok |-> TRUE,
             statement |-> Where(statement, [column |-> column[1],
                                             op |-> Operator(end)[1],
                                             value |-> entry.value])]

RECURSIVE FilterWhere(_, _, _, _)
FilterWhere(model_db, statement, filters, i) ==
    IF i > Len(filters) THEN [ok |-> TRUE, statement |-> statement]
    ELSE LET r == FilterStep(model_db, statement, filters[i])
         IN IF ~r.ok THEN r ELSE FilterWhere(model_db, r.statement, filters, i + 1)


\* mutant: the filters are applied to a fresh select, replacing the status predicate
set_filters_fresh(statement, model_db, filters) ==
    IF filters = <<>> THEN [ok |-> TRUE, statement |-> statement]
    ELSE FilterWhere(model_db, select, filters, 1)

\* [ok, statement], or [ok, code] when an entry raises
set_filters(statement, model_db, filters) ==
    IF filters = <<>> THEN [ok |-> TRUE, statement |-> statement]
    ELSE IF IsoformatRaises(filters) THEN [ok |-> FALSE, code |-> 500]
    ELSE FilterWhere(model_db, statement, filters, 1)


\* mutant: a token that is only "-" is kept, with an empty column name
RECURSIVE SortLoop_keep(_, _, _)
SortLoop_keep(fields, i, acc) ==
    IF i > Len(fields) THEN acc
    ELSE LET field == fields[i]
             column_name == Strip(SubSeq(field, 2, Len(field)))
         IN IF Head(field) = "-"
            THEN SortLoop_keep(fields, i + 1,
                        [sort_columns |-> Append(acc.sort_columns, column_name),
                         sort_orders  |-> Append(acc.sort_orders, "desc")])
            ELSE SortLoop_keep(fields, i + 1,
                        [sort_columns |-> Append(acc.sort_columns, field),
                         sort_orders  |-> Append(acc.sort_orders, "asc")])

\* ------------------------------------------------------------ sort parser
RECURSIVE SortLoop(_, _, _)
SortLoop(fields, i, acc) ==
    IF i > Len(fields) THEN acc
    ELSE LET field == fields[i]
             column_name == Strip(SubSeq(field, 2, Len(field)))
         IN IF Head(field) = "-"
            THEN IF column_name # <<>>
                 THEN SortLoop(fields, i + 1,
                        [sort_columns |-> Append(acc.sort_columns, column_name),
                         sort_orders  |-> Append(acc.sort_orders, "desc")])
                 ELSE SortLoop(fields, i + 1, acc)
            ELSE SortLoop(fields, i + 1,
                        [sort_columns |-> Append(acc.sort_columns, field),
                         sort_orders  |-> Append(acc.sort_orders, "asc")])

StripAll(elems) == [i \in DOMAIN elems |-> Strip(elems[i])]

\* sort_string is Optional: <<>> is None, <<s>> the string s
parse_sort_string(sort_string) ==
    IF sort_string = <<>> \/ sort_string[1] = <<>> \/ Strip(sort_string[1]) = <<>>
    THEN [sort_columns |-> <<>>, sort_orders |-> <<>>]
    ELSE SortLoop(SelectSeq(StripAll(Split(sort_string[1], ",")), LAMBDA f : f # <<>>),
                  1, [sort_columns |-> <<>>, sort_orders |-> <<>>])

\* apply_sorting is called with the keyword stmt, which it does not have:
\* the call raises TypeError before its body runs (an unhandled fault, 500)
set_sorting(statement, sort) ==
    IF sort = <<>> THEN [ok |-> TRUE, statement |-> statement]
    ELSE [ok |-> FALSE, code |-> 500]

\* ------------------------------------------------------------------ pager
\* the column is NULL in the row
IsNull(t, id, column) == column = "region_id" /\ t[id].region_id = <<>>

ColumnValue(t, id, column) ==
    CASE column = "id"         -> id
      [] column = "created_at" -> CreatedAt(id)
      [] column = "status_id"  -> t[id].status_id
      [] column = "name"       -> t[id].name
      [] column = "region_id"  -> t[id].region_id[1]

\* a comparison with NULL is not true
CondHolds(t, id, c) ==
    LET x == ColumnValue(t, id, c.column)
    IN IF c.op = "false" \/ IsNull(t, id, c.column) THEN FALSE
       ELSE
       CASE c.op = "eq"    -> x = c.value
         [] c.op = "ilike" -> ILike(x, c.value)
         [] c.op = "in"    -> \E i \in DOMAIN c.value : c.value[i] = x
         [] c.op = "gte"   -> x >= c.value
         [] c.op = "lte"   -> x <= c.value
         [] c.op = "gt"    -> x > c.value
         [] c.op = "lt"    -> x < c.value

RowMatches(t, id, statement) ==
    \A i \in DOMAIN statement.where : CondHolds(t, id, statement.where[i])

RECURSIVE Scan(_, _, _)
Scan(t, statement, id) ==
    IF id > Max(DOMAIN t \cup {0}) THEN <<>>
    ELSE (IF id \in DOMAIN t /\ RowMatches(t, id, statement)
          THEN <<Public(t, id)>> ELSE <<>>)
         \o Scan(t, statement, id + 1)

Min(a, b) == IF a < b THEN a ELSE b

\* session.exec(statement).all()
Exec(t, statement) ==
    LET m == Scan(t, statement, 1)
    IN IF statement.window = <<>> THEN m
       ELSE SubSeq(m, statement.window[1].offset + 1,
                   Min(Len(m), statement.window[1].offset + statement.window[1].limit))

\* select(func.count()).select_from(statement)
count_query(t, statement) == Len(Exec(t, statement))


\* mutant: floor division
Pages_floor(total, per_page) == total \div per_page

Pages(total, per_page) == (total + per_page - 1) \div per_page


\* mutant: the offset is page * per_page
window_query_next(t, statement, pagination) ==
    Exec(t, [statement EXCEPT !.window =
                <<[offset |-> pagination.page * pagination.per_page,
                   limit  |-> pagination.per_page]>>])

\* mutant: the windowed query runs on the bare select(model_db)
window_query_bare(t, statement, pagination) ==
    Exec(t, [select EXCEPT !.window =
                <<[offset |-> (pagination.page - 1) * pagination.per_page,
                   limit  |-> pagination.per_page]>>])

window_query(t, statement, pagination) ==
    Exec(t, [statement EXCEPT !.window =
                <<[offset |-> (pagination.page - 1) * pagination.per_page,
                   limit  |-> pagination.per_page]>>])

PaginatedResponse(data, pagination, total) ==
    [data |-> data, page |-> pagination.page, per_page |-> pagination.per_page,
     total_records |-> total, pages |-> Pages(total, pagination.per_page)]

\* the statement _get_list composes from the filter mapping its dependency
\* returned, or the fault that ends the request
ComposeWith(req, filters) ==
    LET s1 == set_status(select, Columns, req.status)
        s2 == set_filters(s1.statement, Columns, filters)
    IN IF ~s1.ok THEN s1
       ELSE IF ~s2.ok THEN s2
       ELSE set_sorting(s2.statement, req.sort)

Compose(req) == ComposeWith(req, generated_filter_function(req.params))

Pagination(req) == [page |-> req.page, per_page |-> req.per_page]

\* _get_list on a table no one else writes
get_list(t, req) ==
    LET c == Compose(req)
    IN IF ~c.ok THEN [code |-> c.code]
       ELSE [code |-> 200] @@
            PaginatedResponse(window_query(t, c.statement, Pagination(req)),
                              Pagination(req), count_query(t, c.statement))

\* --------------------------------------------------------------- handlers

\* session.get(model_db, id): the primary key alone decides
session_get(t, id) == IF id \in DOMAIN t THEN <<id>> ELSE <<>>


\* mutant: the lookup of delete without the status condition
delete_select_any(t, id) == IF id \in DOMAIN t THEN <<id>> ELSE <<>>

\* select(model_db).where(id == id, status_id != deleted).first()
delete_select(t, id) ==
    IF id \in DOMAIN t /\ t[id].status_id # "deleted" THEN <<id>> ELSE <<>>

\* select(model_db).where(id == id, status_id == deleted).first()
restore_select(t, id) ==
    IF id \in DOMAIN t /\ t[id].status_id = "deleted" THEN <<id>> ELSE <<>>


\* mutant: session.delete(model_db) in place of the status change
delete_write_hard(t, id) == [j \in DOMAIN t \ {id} |-> t[j]]

\* model_db.status_id = Status.deleted; session.add; session.commit: the row is
\* written by primary key, whatever its status has become since the select
delete_write(t, id) == [t EXCEPT ![id].status_id = "deleted"]


\* mutant: restore writes inactive
restore_write_inactive(t, id) == [t EXCEPT ![id].status_id = "inactive"]

\* model_db.status_id = Status.active; session.add; session.commit
restore_write(t, id) == [t EXCEPT ![id].status_id = "active"]

\* model_db.model_validate(body_in): status_id takes its default
model_validate(body_in) ==
    [status_id |-> "active", name |-> body_in.name, region_id |-> body_in.region_id]

\* model_db.sqlmodel_update(update_data), update_data without the unset fields
sqlmodel_update(row, update_data) ==
    [row EXCEPT
       !.name = IF update_data.name = <<>> THEN @ ELSE update_data.name[1],
       !.region_id = IF update_data.region_id = <<>> THEN @ ELSE update_data.region_id[1]]

\* sqlmodel_update on the row as session.get loaded it, session.add and
\* session.commit: the flush writes the attributes whose value differs from the
\* loaded one, by primary key, and leaves the other columns as they are stored
update_write(t, id, loaded, update_data) ==
    LET updated == sqlmodel_update(loaded, update_data)
    IN [t EXCEPT
          ![id].name = IF updated.name = loaded.name THEN @ ELSE updated.name,
          ![id].region_id = IF updated.region_id = loaded.region_id THEN @
                            ELSE updated.region_id]

\* model_validate(body_in), session.add and session.commit: the new row gets
\* the next id
create_write(t, body_in) == (NextId(t) :> model_validate(body_in)) @@ t

\* ----------------------------------------------------------------- inputs
\* where the storage layer raises: in session.commit(), before the transaction
\* commits, or in session.refresh(), after it
CommitFaults == {"none", "commit"}

RefreshFaults == {"none", "refresh"}

\* CityCreate: every name without a region, and one body with a region
CreateBodies ==
    [name : Names, region_id : {<<>>}] \cup {[name |-> <<"a">>, region_id |-> <<1>>]}

\* CityUpdate after model_dump(exclude_unset=True): each field unset (<<>>) or
\* set to a value; the bodies that set at most one field
UpdateBodies ==
    [name : {<<>>} \cup {<<n>> : n \in Names}, region_id : {<<>>}]
    \cup [name : {<<>>}, region_id : {<<r>> : r \in Regions}]

SortGiven == {<< <<>> >>, << <<"-", "i", "d">> >>}

ParamInputs ==
    { <<>>,
      <<[name |-> <<"id", "in">>, value |-> <<"1", ",", "x">>]>>,
      <<[name |-> <<"name", "like">>, value |-> <<"b">>]>> }

\* every status, page and page size without filters; the filters and the sort
\* on the first page of the active rows
ListRequests ==
    [status : Status, sort : {<<>>}, page : 1..MaxPage,
     per_page : 1..MaxPerPage, params : {<<>>}]
    \cup
    [status : {"active"}, sort : {<<>>}, page : {DefaultPage},
     per_page : {1, MaxPerPage}, params : ParamInputs]
    \cup
    [status : {"active"}, sort : SortGiven, page : {DefaultPage},
     per_page : {MaxPerPage}, params : {<<>>}]

NoResponse == [op |-> "none", code |-> 0, id |-> 0]

Pending == [op |-> "pending", code |-> 0, id |-> 0]

\* ---------------------------------------------------------------- actions
\* a commit that changes the table is seen by the requests in flight
MarkStale(f, changed) ==
    [s \in DOMAIN f |-> IF f[s] # <<>> /\ changed
                        THEN <<[f[s][1] EXCEPT !.stale = TRUE]>> ELSE f[s]]

Idle(s) == inflight[s] = <<>>

\* the request of session s ends with the answer r and leaves the table t
Finish(s, r, t) ==
    /\ rows' = t
    /\ response' = [response EXCEPT ![s] = r]
    /\ inflight' = [MarkStale(inflight, t # rows) EXCEPT ![s] = <<>>]
    /\ UNCHANGED call

\* the request of session s has made a round trip that leaves the table t,
\* and goes on
Proceed(s, f, t) ==
    /\ rows' = t
    /\ response' = [response EXCEPT ![s] = Pending]
    /\ inflight' = [MarkStale(inflight, t # rows) EXCEPT ![s] = <<f>>]
    /\ UNCHANGED call

\* the request of session s has run a query and goes on
Await(s, f) == Proceed(s, f, rows)

\* session.refresh(model_db) and the answer: the body is the row as the refresh
\* reads it; code is the answer when the refresh raises
Refresh(s, fault, code) ==
    LET f == inflight[s][1]
    IN IF fault = "refresh"
       THEN Finish(s, [op |-> f.op, code |-> code, id |-> f.id], rows)
       ELSE Finish(s, [op |-> f.op, code |-> 200, id |-> f.id, row |-> rows[f.id]],
                   rows)

\* session.get and the answer
_get_one(s, id) ==
    /\ Idle(s)
    /\ IF session_get(rows, id) = <<>>
       THEN Finish(s, [op |-> "view", code |-> 403, id |-> id], rows)
       ELSE Finish(s, [op |-> "view", code |-> 200, id |-> id, row |-> rows[id]],
                   rows)

\* _create_one up to session.commit() and its 422
_create_one(s, body_in, fault) ==
    /\ Idle(s)
    /\ NextId(rows) <= MaxRows
    /\ IF fault = "commit"
       THEN Finish(s, [op |-> "create", code |-> 422, id |-> NextId(rows)], rows)
       ELSE Proceed(s, [op |-> "create", pc |-> "refresh", id |-> NextId(rows),
                        stale |-> FALSE],
                    create_write(rows, body_in))

\* session.refresh and the answer of _create_one
_create_one_refresh(s, fault) ==
    /\ ~Idle(s)
    /\ inflight[s][1].op = "create"
    /\ Refresh(s, fault, 422)

\* _update_one up to session.get and its 403
_update_one(s, id, update_data) ==
    /\ Idle(s)
    /\ IF session_get(rows, id) = <<>>
       THEN Finish(s, [op |-> "update", code |-> 403, id |-> id], rows)
       ELSE Await(s, [op |-> "update", pc |-> "commit", id |-> id,
                      update_data |-> update_data, loaded |-> rows[id],
                      stale |-> FALSE])

\* sqlmodel_update, add and commit of _update_one, and the 422 of the commit
_update_one_commit(s, fault) ==
    /\ ~Idle(s)
    /\ inflight[s][1].op = "update"
    /\ inflight[s][1].pc = "commit"
    /\ LET f == inflight[s][1]
       IN IF fault = "commit"
          THEN Finish(s, [op |-> "update", code |-> 422, id |-> f.id], rows)
          ELSE Proceed(s, [f EXCEPT !.pc = "refresh"],
                       update_write(rows, f.id, f.loaded, f.update_data))

\* session.refresh and the answer of _update_one
_update_one_refresh(s, fault) ==
    /\ ~Idle(s)
    /\ inflight[s][1].op = "update"
    /\ inflight[s][1].pc = "refresh"
    /\ Refresh(s, fault, 422)

\* _delete_one up to its select and its 404
_delete_one(s, id) ==
    /\ Idle(s)
    /\ IF delete_select(rows, id) = <<>>
       THEN Finish(s, [op |-> "delete", code |-> 404, id |-> id], rows)
       ELSE Await(s, [op |-> "delete", pc |-> "commit", id |-> id, stale |-> FALSE])

\* the status change, add and commit of _delete_one; nothing catches what the
\* commit raises (500)
_delete_one_commit(s, fault) ==
    /\ ~Idle(s)
    /\ inflight[s][1].op = "delete"
    /\ inflight[s][1].pc = "commit"
    /\ LET f == inflight[s][1]
       IN IF fault = "commit"
          THEN Finish(s, [op |-> "delete", code |-> 500, id |-> f.id], rows)
          ELSE Proceed(s, [f EXCEPT !.pc = "refresh"], delete_write(rows, f.id))

\* session.refresh and the answer of _delete_one
_delete_one_refresh(s, fault) ==
    /\ ~Idle(s)
    /\ inflight[s][1].op = "delete"
    /\ inflight[s][1].pc = "refresh"
    /\ Refresh(s, fault, 500)

\* _restore_one up to its select and its 404
_restore_one(s, id) ==
    /\ Idle(s)
    /\ IF restore_select(rows, id) = <<>>
       THEN Finish(s, [op |-> "restore", code |-> 404, id |-> id], rows)
       ELSE Await(s, [op |-> "restore", pc |-> "commit", id |-> id, stale |-> FALSE])

\* the status change, add and commit of _restore_one; nothing catches what the
\* commit raises (500)
_restore_one_commit(s, fault) ==
    /\ ~Idle(s)
    /\ inflight[s][1].op = "restore"
    /\ inflight[s][1].pc = "commit"
    /\ LET f == inflight[s][1]
       IN IF fault = "commit"
          THEN Finish(s, [op |-> "restore", code |-> 500, id |-> f.id], rows)
          ELSE Proceed(s, [f EXCEPT !.pc = "refresh"], restore_write(rows, f.id))

\* session.refresh and the answer of _restore_one
_restore_one_refresh(s, fault) ==
    /\ ~Idle(s)
    /\ inflight[s][1].op = "restore"
    /\ inflight[s][1].pc = "refresh"
    /\ Refresh(s, fault, 500)

\* _get_list with the filter mapping of its dependency, up to and including
\* the count query of set_offset_limit
ListStart(s, req, filters) ==
    LET c == ComposeWith(req, filters)
    IN IF ~c.ok
       THEN Finish(s, [op |-> "list", code |-> c.code, req |-> req,
                       filters |-> filters], rows)
       ELSE Await(s, [op |-> "list", req |-> req, filters |-> filters,
                      total |-> count_query(rows, c.statement),
                      stale |-> FALSE])

_get_list(s, req) ==
    /\ Idle(s)
    /\ ListStart(s, req, generated_filter_function(req.params))

\* the windowed query of set_offset_limit and the envelope
_get_list_window(s) ==
    /\ ~Idle(s)
    /\ inflight[s][1].op = "list"
    /\ LET f == inflight[s][1]
           c == ComposeWith(f.req, f.filters)
       IN Finish(s, [op |-> "list", code |-> 200, req |-> f.req,
                     filters |-> f.filters, stale |-> f.stale] @@
                    PaginatedResponse(window_query(rows, c.statement, Pagination(f.req)),
                                      Pagination(f.req), f.total),
                 rows)

\* the tables the commit of another caller's request can leave: the commit
\* step of a create, or of an update, a delete or a restore whose lookup found the
\* row (a commit that writes the status the row already has changes nothing)
Commits(t) ==
    {create_write(t, b) : b \in IF NextId(t) <= MaxRows THEN CreateBodies ELSE {}}
    \cup {update_write(t, id, t[id], u) : id \in DOMAIN t, u \in UpdateBodies}
    \cup {delete_write(t, id) : id \in {j \in DOMAIN t : delete_select(t, j) # <<>>}}
    \cup {restore_write(t, id) : id \in {j \in DOMAIN t : restore_select(t, j) # <<>>}}

\* a commit of a caller that is not observed, between the steps of a request
OtherCallers ==
    /\ \E s \in DOMAIN inflight : ~Idle(s)
    /\ \E t \in Commits(rows) :
          /\ t # rows
          /\ rows' = t
    /\ inflight' = MarkStale(inflight, TRUE)
    /\ UNCHANGED <<response, call>>

Init ==
    /\ rows \in Tables
    /\ inflight = [s \in {1} |-> <<>>]
    /\ response = [s \in {1} |-> NoResponse]
    /\ call = NoCall

Next ==
    \/ \E s \in DOMAIN inflight, id \in Ids : _get_one(s, id)
    \/ \E s \in DOMAIN inflight, req \in ListRequests : _get_list(s, req)
    \/ \E s \in DOMAIN inflight : _get_list_window(s)
    \/ \E s \in DOMAIN inflight, body_in \in CreateBodies, fault \in CommitFaults :
          _create_one(s, body_in, fault)
    \/ \E s \in DOMAIN inflight, fault \in RefreshFaults : _create_one_refresh(s, fault)
    \/ \E s \in DOMAIN inflight, id \in Ids, update_data \in UpdateBodies :
          _update_one(s, id, update_data)
    \/ \E s \in DOMAIN inflight, fault \in CommitFaults : _update_one_commit(s, fault)
    \/ \E s \in DOMAIN inflight, fault \in RefreshFaults : _update_one_refresh(s, fault)
    \/ \E s \in DOMAIN inflight, id \in Ids : _delete_one(s, id)
    \/ \E s \in DOMAIN inflight, fault \in CommitFaults : _delete_one_commit(s, fault)
    \/ \E s \in DOMAIN inflight, fault \in RefreshFaults : _delete_one_refresh(s, fault)
    \/ \E s \in DOMAIN inflight, id \in Ids : _restore_one(s, id)
    \/ \E s \in DOMAIN inflight, fault \in CommitFaults : _restore_one_commit(s, fault)
    \/ \E s \in DOMAIN inflight, fault \in RefreshFaults : _restore_one_refresh(s, fault)
    \/ OtherCallers

Spec == Init /\ [][Next]_vars

\* ================================================================= claims
DefaultRequest ==
    [status |-> "active", sort |-> <<>>, page |-> DefaultPage,
     per_page |-> DefaultPerPage, params |-> <<>>]

\* the row is in the data of the list response to req on table t
InList(t, req, id) ==
    LET r == get_list(t, req)
    IN r.code = 200 /\ \E i \in DOMAIN r.data : r.data[i].id = id

\* C1: a delete of an active row goes on to its commit, which sets the status
\* to deleted and takes the row out of the default (active) list, and is then
\* answered with success; a restore of a deleted row does the converse and puts
\* the row back in that list; a delete of an already deleted row answers 404
\* and changes nothing.
C1_RoundTrip ==
    [][\A id \in DOMAIN rows :
        /\ (_delete_one(1, id) /\ rows[id].status_id = "active")
              => (resp'.op = "pending" /\ rows' = rows)
        /\ (_delete_one_commit(1, "none") /\ lst[1].id = id)
              => /\ rows'[id].status_id = "deleted"
                 /\ ~InList(rows', DefaultRequest, id)
        /\ (_delete_one_refresh(1, "none") /\ lst[1].id = id)
              => (resp'.code = 200 /\ rows' = rows)
        /\ (_restore_one(1, id) /\ rows[id].status_id = "deleted")
              => (resp'.op = "pending" /\ rows' = rows)
        /\ (_restore_one_commit(1, "none") /\ lst[1].id = id)
              => /\ rows'[id].status_id = "active"
                 /\ InList(rows', DefaultRequest, id)
        /\ (_restore_one_refresh(1, "none") /\ lst[1].id = id)
              => (resp'.code = 200 /\ rows' = rows)
        /\ (_delete_one(1, id) /\ rows[id].status_id = "deleted")
              => /\ resp'.code = 404
                 /\ rows' = rows]_vars

C1_Witness ==
    /\ resp.op = "restore" /\ resp.code = 200
    /\ rows[resp.id].status_id = "active"
    /\ InList(rows, DefaultRequest, resp.id)

\* C2: every row in the data of a list response has the status the request
\* asked for, whatever the filters, the page and the writes that came before
\* or in between.
C2_StatusScope ==
    (resp.op = "list" /\ resp.code = 200)
        => \A i \in DOMAIN resp.data : resp.data[i].status_id = resp.req.status

C2_Witness ==
    /\ resp.op = "list" /\ resp.code = 200
    /\ resp.filters # <<>> /\ resp.data # <<>> /\ resp.stale
    /\ \E id \in DOMAIN rows : rows[id].status_id # resp.req.status

\* C3 (as claimed): view and update answer a row whose status is deleted with
\* the not-found error (403), as they answer an id that has no row.
C3_ViewUpdateScoped ==
    (/\ resp.op \in {"view", "update"}
     /\ resp.id \in DOMAIN rows
     /\ rows[resp.id].status_id = "deleted")
        => resp.code = 403

\* C4: no step removes a row, and delete changes only the status column.
C4_NoRemoval ==
    [][/\ DOMAIN rows \subseteq DOMAIN rows'
       /\ \A id \in Ids : _delete_one(1, id) => rows' = rows
       /\ \A fault \in CommitFaults :
             _delete_one_commit(1, fault) =>
                \A j \in DOMAIN rows :
                   /\ [rows'[j] EXCEPT !.status_id = rows[j].status_id] = rows[j]
                   /\ (j # lst[1].id => rows'[j] = rows[j])
       /\ \A fault \in RefreshFaults : _delete_one_refresh(1, fault) => rows' = rows]_vars

C4_Witness ==
    /\ resp.op = "delete" /\ resp.code = 200
    /\ resp.id \in DOMAIN rows
    /\ Cardinality(DOMAIN rows) = MaxRows

\* C5 (as claimed): a successful delete always starts from an active row.
C5_DeleteFromActiveOnly ==
    [][\A id \in DOMAIN rows :
        (_delete_one(1, id) /\ resp'.op = "pending") => rows[id].status_id = "active"]_vars

\* C5 (amended): delete goes on exactly for a row that is not deleted (active
\* or inactive) and makes it deleted; restore goes on exactly for a deleted row
\* and makes it active; no step of delete or restore changes another row's
\* status, and no step changes a status in another way than active -> deleted,
\* inactive -> deleted or deleted -> active.
C5_Transitions ==
    [][\A id \in DOMAIN rows :
        /\ _delete_one(1, id) =>
              /\ rows' = rows
              /\ IF rows[id].status_id \in {"active", "inactive"}
                 THEN resp'.op = "pending" ELSE resp'.code = 404
        /\ _restore_one(1, id) =>
              /\ rows' = rows
              /\ IF rows[id].status_id = "deleted"
                 THEN resp'.op = "pending" ELSE resp'.code = 404
        /\ (_delete_one_commit(1, "none") /\ lst[1].id = id) =>
              /\ rows'[id].status_id = "deleted"
              /\ \A j \in DOMAIN rows \ {id} : rows'[j].status_id = rows[j].status_id
        /\ (_restore_one_commit(1, "none") /\ lst[1].id = id) =>
              /\ rows'[id].status_id = "active"
              /\ \A j \in DOMAIN rows \ {id} : rows'[j].status_id = rows[j].status_id
        /\ (\A fault \in RefreshFaults :
              (_delete_one_refresh(1, fault) \/ _restore_one_refresh(1, fault))
                 => rows' = rows)
        /\ rows'[id].status_id # rows[id].status_id =>
              <<rows[id].status_id, rows'[id].status_id>> \in
                 {<<"active", "deleted">>, <<"inactive", "deleted">>,
                  <<"deleted", "active">>}]_vars

C5_Witness ==
    /\ resp.op = "delete" /\ resp.code = 200
    /\ rows[resp.id].status_id = "deleted"
    /\ \E j \in DOMAIN rows : rows[j].status_id = "inactive"

\* C6 (as claimed): total_records = 0 implies empty data, in every interleaving.
C6_ZeroTotalEmptyData ==
    (resp.op = "list" /\ resp.code = 200 /\ resp.total_records = 0)
        => resp.data = <<>>

\* C6 (amended): total_records = 0 implies empty data when no commit of another
\* request changed the table between the count query and the windowed query.
C6_ZeroTotalEmptyDataQuiet ==
    (resp.op = "list" /\ resp.code = 200 /\ resp.total_records = 0 /\ ~resp.stale)
        => resp.data = <<>>

C6_Witness ==
    /\ resp.op = "list" /\ resp.code = 200
    /\ resp.total_records = 0 /\ ~resp.stale /\ resp.data = <<>>
    /\ DOMAIN rows # {}

\* ------------------------------------------------------- the pager alone
\* n rows, the first k of them active, and no writer
PagerTables ==
    {[id \in 1..n |-> [status_id |-> IF id <= k THEN "active" ELSE "deleted",
                       name |-> <<"a">>, region_id |-> <<>>]] :
        n \in 0..MaxTotal, k \in 0..MaxTotal}

PagerRequests ==
    [status : {"active"}, sort : {<<>>}, page : 1..MaxPagerPage,
     per_page : (1..MaxPagerPerPage) \cup {DefaultPerPage, PerPageLimit},
     params : {<<>>}]

InitPager ==
    /\ rows \in PagerTables
    /\ inflight = [s \in {1} |-> <<>>]
    /\ response = [s \in {1} |-> NoResponse]
    /\ call = NoCall

\* one request on each table
NextPager ==
    \/ resp.op = "none" /\ \E req \in PagerRequests : _get_list(1, req)
    \/ _get_list_window(1)

SpecPager == InitPager /\ [][NextPager]_vars

\* C7: the envelope reports page and per_page as requested, total_records is
\* the number of rows the count query matches, pages is the least n with
\* n * per_page >= total_records, and pages = 0 exactly when total_records = 0.
C7_Envelope ==
    (resp.op = "list" /\ resp.code = 200)
        => LET total == Cardinality({id \in DOMAIN rows :
                                        rows[id].status_id = resp.req.status})
           IN /\ resp.page = resp.req.page
              /\ resp.per_page = resp.req.per_page
              /\ resp.total_records = total
              /\ resp.pages >= 0
              /\ resp.pages * resp.per_page >= total
              /\ (resp.pages > 0 => (resp.pages - 1) * resp.per_page < total)
              /\ (resp.pages = 0 <=> resp.total_records = 0)

C7_Witness ==
    /\ resp.op = "list" /\ resp.code = 200
    /\ resp.pages >= 2
    /\ resp.total_records % resp.per_page # 0

\* --------------------------------------------------------------- C8
\* getattr(model_db, column_name, None) for the integer-valued columns
IntColumn(chars) ==
    CASE chars = <<"i", "d">> -> <<"id">>
      [] chars = <<"c", "r", "e", "a", "t", "e", "d", "_", "a", "t">> -> <<"created_at">>
      [] OTHER -> <<>>

SortKey(row, chars) == IF IntColumn(chars)[1] = "id" THEN row.id ELSE CreatedAt(row.id)

\* a comes no later than b under the directives k, k+1, ...
RECURSIVE LexLeq(_, _, _, _)
LexLeq(a, b, d, k) ==
    IF k > Len(d.sort_columns) THEN TRUE
    ELSE LET x == SortKey(a, d.sort_columns[k])
             y == SortKey(b, d.sort_columns[k])
         IN IF x = y THEN LexLeq(a, b, d, k + 1)
            ELSE IF d.sort_orders[k] = "asc" THEN x < y ELSE x > y

\* C8 (as claimed): a list request whose sort parameter is given and names
\* only existing columns (here: at least one directive, on the integer-valued
\* columns) succeeds, and its rows are ordered by the directives, the first
\* being the primary key of the ordering.
C8_SortedList ==
    (/\ resp.op = "list"
     /\ resp.req.sort # <<>>
     /\ parse_sort_string(resp.req.sort).sort_columns # <<>>
     /\ \A k \in DOMAIN parse_sort_string(resp.req.sort).sort_columns :
           IntColumn(parse_sort_string(resp.req.sort).sort_columns[k]) # <<>>)
        => /\ resp.code = 200
           /\ \A i \in DOMAIN resp.data : \A j \in DOMAIN resp.data :
                 i < j => LexLeq(resp.data[i], resp.data[j],
                                 parse_sort_string(resp.req.sort), 1)

\* ------------------------------------------------- the sort parser alone
SortAlphabet == {"a", "b", "c", ",", "-", " "}

SortArgs ==
    {<<>>}
    \cup {<<s>> : s \in UNION {[1..n -> SortAlphabet] : n \in 0..MaxSortLen}}
    \cup {<< <<"a", ",", "-", "b", ",", "c">> >>}

InitSort ==
    /\ rows = <<>>
    /\ inflight = [s \in {1} |-> <<>>]
    /\ response = [s \in {1} |-> NoResponse]
    /\ call \in {[fn |-> "parse_sort_string", arg |-> a, ret |-> <<>>] : a \in SortArgs}

CallParseSort ==
    /\ call.fn = "parse_sort_string"
    /\ call.ret = <<>>
    /\ call' = [call EXCEPT !.ret = <<parse_sort_string(call.arg)>>]
    /\ UNCHANGED <<rows, inflight, response>>

SpecSort == InitSort /\ [][CallParseSort]_vars

Blank(arg) == arg = <<>> \/ \A i \in DOMAIN arg[1] : arg[1][i] = " "

\* the comma-separated tokens, trimmed, the empty ones dropped
Tokens(s) == SelectSeq(StripAll(Split(s, ",")), LAMBDA f : f # <<>>)

\* the directives the claim gives for the tokens i, i+1, ...; trim says whether
\* the rest of a "-" token is trimmed
RECURSIVE Directives(_, _, _)
Directives(toks, i, trim) ==
    IF i > Len(toks) THEN <<>>
    ELSE LET rest == Tail(toks[i])
         IN (IF Head(toks[i]) = "-"
             THEN IF rest = <<>> THEN <<>>
                  ELSE << <<IF trim THEN Strip(rest) ELSE rest, "desc">> >>
             ELSE << <<toks[i], "asc">> >>)
            \o Directives(toks, i + 1, trim)

Paired(r) == [i \in DOMAIN r.sort_columns |-> <<r.sort_columns[i], r.sort_orders[i]>>]

ParseAgrees(trim) ==
    call.ret # <<>>
        => LET r == call.ret[1]
           IN /\ Len(r.sort_columns) = Len(r.sort_orders)
              /\ Blank(call.arg) => r.sort_columns = <<>>
              /\ ~Blank(call.arg) => Paired(r) = Directives(Tokens(call.arg[1]), 1, trim)
              /\ call.arg = << <<"-">> >> => r.sort_columns = <<>>
              /\ call.arg = << <<"a", ",", "-", "b", ",", "c">> >>
                    => Paired(r) = << << <<"a">>, "asc">>, << <<"b">>, "desc">>,
                                      << <<"c">>, "asc">> >>

\* C9 (as claimed): a token starting with "-" gives (rest of token, desc).
C9_ParseRestOfToken == ParseAgrees(FALSE)

\* C9 (amended): a token starting with "-" gives (rest of token with its
\* surrounding whitespace trimmed, desc); everything else as claimed.
C9_ParseTrimmedRest == ParseAgrees(TRUE)

C9_Witness ==
    /\ call.fn = "parse_sort_string" /\ call.ret # <<>>
    /\ call.arg = << <<"-", " ", "a", ",">> >>
    /\ call.ret[1].sort_columns = << <<"a">> >>

\* ------------------------------------------- the filter collector alone
InAlphabet == {"1", "2", "x", ","}

InStrings ==
    UNION {[1..n -> InAlphabet] : n \in 0..MaxInLen}
    \cup {<<" ", "1", " ", ",", "2">>, <<"1", ",", " ", "x">>, <<"1", ",", " ">>}

ParamNames == {ParamName(function_params[i]) : i \in DOMAIN function_params}

ParamValues(n) ==
    CASE n = <<"id", "eq">>         -> {1}
      [] n = <<"id", "in">>         -> InStrings
      [] n = <<"name", "eq">>       -> {<<"a">>}
      [] n = <<"name", "like">>     -> {<<>>, <<"b">>}
      [] n = <<"name", "in">>       -> {<<"a", ",", "x">>}
      [] n = <<"created_at", "gte">> -> {2}
      [] n = <<"created_at", "lte">> -> {1}
      [] n = <<"created_at", "gt">>  -> {1}
      [] n = <<"created_at", "lt">>  -> {2}
      [] n = <<"region_id", "eq">>   -> {1}
      [] n = <<"region_id", "in">>   -> {<<"1", ",", "2">>}

FilterTables ==
    [1..2 -> [status_id : {"active", "deleted"}, name : Names, region_id : Regions]]

FilterRequest(p) == [DefaultRequest EXCEPT !.params = p]

InitFilter ==
    /\ rows \in FilterTables
    /\ inflight = [s \in {1} |-> <<>>]
    /\ response = [s \in {1} |-> NoResponse]
    /\ call = NoCall

\* one request on each table, with at most two parameters given
FilterCall ==
    \/ _get_list(1, FilterRequest(<<>>))
    \/ \E i \in DOMAIN function_params, j \in DOMAIN function_params :
          /\ i <= j
          /\ \E v \in ParamValues(ParamName(function_params[i])),
                w \in ParamValues(ParamName(function_params[j])) :
                /\ i = j => v = w
                /\ _get_list(1, FilterRequest(
                      <<[name |-> ParamName(function_params[i]), value |-> v]>>
                      \o IF i = j THEN <<>>
                         ELSE <<[name |-> ParamName(function_params[j]), value |-> w]>>))

NextFilter ==
    \/ resp.op = "none" /\ FilterCall
    \/ _get_list_window(1)

SpecFilter == InitFilter /\ [][NextFilter]_vars

\* an element that is not an integer: empty after trimming, or with a non-digit
NotInteger(e) == Strip(e) = <<>> \/ \E i \in DOMAIN Strip(e) : Strip(e)[i] \notin Digits

BadInList(s) ==
    s # <<>> /\ \E i \in DOMAIN Split(s, ",") : NotInteger(Split(s, ",")[i])

Without(p, n) == SelectSeq(p, LAMBDA e : e.name # n)

FilterValue(filters, k) == filters[CHOOSE i \in DOMAIN filters : filters[i].key = k].value

\* C10: an in-list of the integer column id with an element that is not an
\* integer leaves no id__in key in the mapping, keeps every other filter, does
\* not reject the request, and gives the list result of the request without it.
C10_LenientIgnore ==
    (/\ resp.op = "list"
     /\ Given(resp.req.params, <<"id", "in">>)
     /\ BadInList(Arg(resp.req.params, <<"id", "in">>)))
        => LET q == Without(resp.req.params, <<"id", "in">>)
               other == generated_filter_function(q)
               same == get_list(rows, [resp.req EXCEPT !.params = q])
           IN /\ resp.code = 200
              /\ Str("id") \o Str("__") \o Str("in") \notin FilterKeys(resp.filters)
              /\ FilterKeys(resp.filters) = FilterKeys(other)
              /\ \A k \in FilterKeys(other) :
                    FilterValue(resp.filters, k) = FilterValue(other, k)
              /\ resp.data = same.data
              /\ resp.total_records = same.total_records

C10_Witness ==
    /\ resp.op = "list" /\ resp.code = 200
    /\ Given(resp.req.params, <<"id", "in">>)
    /\ Arg(resp.req.params, <<"id", "in">>) = <<"1", ",", "x">>
    /\ FilterKeys(resp.filters) = {Str("name") \o Str("__") \o Str("ilike")}
    /\ Len(resp.data) = 1 /\ resp.data[1].id = 2

\* ------------------------------------------------ the filter composer alone
\* keys of filter mappings handed to set_filters: columns of the model and a
\* column it does not have, operators of SQLOperators and one outside it
ComposerKeys ==
    {Str("id"), Str("id") \o Str("__") \o Str("in"),
     Str("name") \o Str("__") \o Str("ilike"),
     Str("created_at") \o Str("__") \o Str("gte"),
     Str("id") \o Str("__") \o Str("between")}
    \cup {Str("nope") \o e :
             e \in {Str(""), Str("__") \o Str("ilike"), Str("__") \o Str("in"),
                    Str("__") \o Str("gte"), Str("__") \o Str("between")}}

ComposerValue(k) ==
    CASE KeyOperator(k) = Str("ilike") -> <<"%", "b", "%">>
      [] KeyOperator(k) = Str("in")    -> <<1, 3>>
      [] OTHER                         -> 1

\* the Python type of the value: a datetime for the keys on created_at
ComposerType(k) ==
    CASE KeyColumn(k) = Str("created_at") -> "datetime"
      [] KeyOperator(k) = Str("ilike")    -> "str"
      [] KeyOperator(k) = Str("in")       -> "list"
      [] OTHER                            -> "int"

\* the keys of the mappings of at most MaxFilters entries, in insertion order
ComposerKeySeqs ==
    {q \in UNION {[1..n -> ComposerKeys] : n \in 0..MaxFilters} :
        \A i \in DOMAIN q : \A j \in DOMAIN q : i # j => q[i] # q[j]}

ComposerMapping(ks) ==
    [i \in DOMAIN ks |-> [key |-> ks[i], type |-> ComposerType(ks[i]),
                          value |-> ComposerValue(ks[i])]]

InitComposer ==
    /\ rows \in FilterTables
    /\ inflight = [s \in {1} |-> <<>>]
    /\ response = [s \in {1} |-> NoResponse]
    /\ call = NoCall

\* _get_list with the mapping given in place of the dependency's result
_get_list_filters(filters) ==
    /\ lst = <<>>
    /\ resp.op = "none"
    /\ ListStart(1, FilterRequest(<<>>), filters)

NextComposer ==
    \/ \E ks \in ComposerKeySeqs : _get_list_filters(ComposerMapping(ks))
    \/ _get_list_window(1)

SpecComposer == InitComposer /\ [][NextComposer]_vars

UnknownColumn(filters) ==
    \E i \in DOMAIN filters : getattr(Columns, KeyColumn(filters[i].key)) = <<>>

\* C11 (as claimed): a filter mapping with an entry on a column the model does
\* not have is answered with a 400-class error, and neither the count query nor
\* the windowed query runs for it.
C11_UnknownColumnRejected ==
    /\ lst # <<>> => ~UnknownColumn(lst[1].filters)
    /\ (resp.op = "list" /\ UnknownColumn(resp.filters))
          => resp.code \in 400..499

\* -------------------------------------------- the filter synthesizer alone
SynthNames == {"id", "name", "created_by", "updated_by", "updated_at", "status_id"}

SynthTypes == {"AutoString", "Integer", "Float", "DateTime", "Boolean", "Enum", "Date"}

\* inspector.columns of a model: at most MaxColumns columns with distinct names
ModelDescriptors ==
    {c \in UNION {[1..n -> [name : SynthNames, type : SynthTypes]] : n \in 0..MaxColumns} :
        \A i \in DOMAIN c : \A j \in DOMAIN c : i # j => c[i].name # c[j].name}

InitSynth ==
    /\ rows = <<>>
    /\ inflight = [s \in {1} |-> <<>>]
    /\ response = [s \in {1} |-> NoResponse]
    /\ call \in {[fn |-> "generate_filter_function", columns |-> c, ret |-> <<>>,
                  given |-> <<>>, filters |-> <<>>] : c \in ModelDescriptors}

\* create_filter_dependency(model_class, exclude_fields)
CallGenerate ==
    /\ call.fn = "generate_filter_function"
    /\ call.ret = <<>>
    /\ call' = [call EXCEPT !.ret = <<FunctionParams(call.columns)>>]
    /\ UNCHANGED <<rows, inflight, response>>

\* a value FastAPI accepts for the parameter
SampleValue(fp) ==
    CASE fp.operator = "like"              -> <<"b">>
      [] fp.operator = "in"                -> <<"1">>
      [] _get_python_type(fp.type) = "str" -> <<"a">>
      [] OTHER                             -> 1

SampleParams(fps, S) ==
    LET chosen == SelectSeq([i \in DOMAIN fps |-> i], LAMBDA i : i \in S)
    IN [k \in DOMAIN chosen |-> [name |-> ParamName(fps[chosen[k]]),
                                 value |-> SampleValue(fps[chosen[k]])]]

\* a call of the generated function, with one parameter given or with all
CallGenerated ==
    /\ call.fn = "generate_filter_function"
    /\ call.ret # <<>>
    /\ call.given = <<>>
    /\ \E S \in {{i} : i \in DOMAIN call.ret[1]} \cup {DOMAIN call.ret[1]} :
          /\ S # {}
          /\ call' = [call EXCEPT
                        !.given = SampleParams(call.ret[1], S),
                        !.filters = Collect(call.ret[1], SampleParams(call.ret[1], S), 1)]
    /\ UNCHANGED <<rows, inflight, response>>

NextSynth == CallGenerate \/ CallGenerated

SpecSynth == InitSynth /\ [][NextSynth]_vars

\* the permitted operators of a column type, by the class of the type
Permitted(type) ==
    CASE type \in {"String", "AutoString", "Text", "Enum"} -> {"eq", "like", "in"}
      [] type \in {"Integer", "BigInteger"}                -> {"eq", "in"}
      [] type = "Float"                                    -> {"eq"}
      [] type \in {"DateTime", "TIMESTAMP"}                -> {"gte", "lte", "gt", "lt"}
      [] type = "Boolean"                                  -> {"eq"}
      [] OTHER                                             -> {"eq"}

AuditColumns == {"created_by", "updated_by", "updated_at", "status_id"}

\* C12: the synthesized parameters are exactly one per (column, operator) with
\* the column outside the audit columns and the operator permitted for the
\* column's type; the permitted set is never empty, and no filter mapping the
\* generated function returns has a key on an audit column.
C12_SynthesizedParams ==
    call.fn = "generate_filter_function" /\ call.ret # <<>>
        => LET fps == call.ret[1]
               pairs == {<<call.columns[i].name, o>> :
                            i \in {j \in DOMAIN call.columns :
                                      call.columns[j].name \notin AuditColumns},
                            o \in {"eq", "like", "in", "gte", "lte", "gt", "lt"}}
               wanted == {q \in pairs :
                            \E i \in DOMAIN call.columns :
                               /\ call.columns[i].name = q[1]
                               /\ q[2] \in Permitted(call.columns[i].type)}
           IN /\ {<<fps[i].field, fps[i].operator>> : i \in DOMAIN fps} = wanted
              /\ Len(fps) = Cardinality(wanted)
              /\ \A i \in DOMAIN call.columns :
                    _get_operators_for_type(call.columns[i].type) # <<>>
              /\ \A i \in DOMAIN call.filters :
                    KeyColumn(call.filters[i].key) \notin {Str(a) : a \in AuditColumns}

C12_Witness ==
    /\ call.fn = "generate_filter_function" /\ call.ret # <<>>
    /\ \E i \in DOMAIN call.columns : call.columns[i].name = "status_id"
    /\ \E i \in DOMAIN call.columns :
          call.columns[i].name = "name" /\ call.columns[i].type = "Date"
    /\ Len(call.ret[1]) = 1
    /\ Len(call.filters) = 1

\* --------------------------------------------------------------- C13
\* C13 (as claimed): when add, commit or refresh raises in create or update, the
\* answer is 422 and the stored rows are those of before the request.
C13_FailedPersistUnchanged ==
    [][/\ \A body_in \in CreateBodies :
             _create_one(1, body_in, "commit") => (resp'.code = 422 /\ rows' = rows)
       /\ _create_one_refresh(1, "refresh")
             => (resp'.code = 422 /\ lst[1].id \notin DOMAIN rows')
       /\ _update_one_commit(1, "commit") => (resp'.code = 422 /\ rows' = rows)
       /\ _update_one_refresh(1, "refresh")
             => /\ resp'.code = 422
                /\ ~lst[1].stale => rows'[lst[1].id] = lst[1].loaded]_vars

\* ------------------------------------------- the window over filtered rows
WindowParams ==
    { <<>>,
      <<[name |-> <<"created_at", "gte">>, value |-> 2]>>,
      <<[name |-> <<"id", "in">>, value |-> <<"1", ",", "3", ",", "5">>]>> }

WindowRequests ==
    [status : {"active"}, sort : {<<>>}, page : 1..MaxPagerPage,
     per_page : 1..MaxPagerPerPage, params : WindowParams]

\* one request on each table, no writer
NextWindow ==
    \/ resp.op = "none" /\ \E req \in WindowRequests : _get_list(1, req)
    \/ _get_list_window(1)

SpecWindow == InitPager /\ [][NextWindow]_vars

\* the ids of the rows that have the requested status and satisfy every entry
\* of the filter mapping
MatchingIds(t, status, filters) ==
    {id \in DOMAIN t :
        /\ t[id].status_id = status
        /\ \A i \in DOMAIN filters :
              CondHolds(t, id, [column |-> getattr(Columns, KeyColumn(filters[i].key))[1],
                                op |-> Operator(KeyOperator(filters[i].key))[1],
                                value |-> filters[i].value])}

\* C14: with no writer and no sort, the data of page p with n rows per page are
\* the matching rows after the first (p - 1) * n of them, min(n, max(0, total -
\* (p - 1) * n)) rows in all, each with the requested status and satisfying
\* every filter; a page past the last has empty data, the same total_records
\* and pages, and no error.
C14_Window ==
    (resp.op = "list" /\ resp.req.sort = <<>>)
        => LET m == MatchingIds(rows, resp.req.status, resp.filters)
               total == Cardinality(m)
               off == (resp.req.page - 1) * resp.req.per_page
               left == IF total > off THEN total - off ELSE 0
           IN /\ resp.code = 200
              /\ resp.total_records = total
              /\ resp.pages * resp.req.per_page >= total
              /\ (resp.pages > 0 => (resp.pages - 1) * resp.req.per_page < total)
              /\ Len(resp.data) = Min(resp.req.per_page, left)
              /\ \A i \in DOMAIN resp.data :
                    /\ resp.data[i].id \in m
                    /\ Cardinality({id \in m : id < resp.data[i].id}) = off + i - 1
              /\ (off >= total => resp.data = <<>>)

C14_Witness ==
    /\ resp.op = "list" /\ resp.code = 200
    /\ resp.filters # <<>>
    /\ resp.req.page = 2
    /\ resp.data # <<>>
    /\ Len(resp.data) < resp.req.per_page
    /\ Cardinality(DOMAIN rows) > resp.total_records + 2

\* ------------------------- the collector and the composer of any model
KeyNames == {"name", "region_id", "a__b"}

KeyTypes == {"AutoString", "Integer", "DateTime"}

\* the columns a model class declares itself: at most MaxColumns columns with
\* distinct names
OwnColumns ==
    {c \in UNION {[1..n -> [name : KeyNames, type : KeyTypes]] : n \in 1..MaxColumns} :
        \A i \in DOMAIN c : \A j \in DOMAIN c : i # j => c[i].name # c[j].name}

\* the columns a model class takes from SuperBase
SuperBaseColumns == SubSeq(Columns, 3, Len(Columns))

\* inspector.columns of the model the endpoints are generated for: a class that
\* derives from SuperBase (City is one), or a class with the columns of City
\* it declares itself and a primary key, which has no status_id
KeyModels ==
    {c \o SuperBaseColumns : c \in OwnColumns}
    \cup {c \o <<[name |-> "id", type |-> "Integer"]>> :
             c \in {d \in OwnColumns : \A i \in DOMAIN d : d[i].name # "a__b"}}

InitAccept ==
    /\ rows = <<>>
    /\ inflight = [s \in {1} |-> <<>>]
    /\ response = [s \in {1} |-> NoResponse]
    /\ call \in {[fn |-> "list_filters", model_db |-> c, pc |-> "collect",
                  given |-> <<>>, filters |-> <<>>, code |-> 0] : c \in KeyModels}

\* the filter dependency of the list endpoint of the model, on a request that
\* gives one or two of the endpoint's filter parameters
CallCollect ==
    /\ call.fn = "list_filters"
    /\ call.pc = "collect"
    /\ LET fps == FunctionParams(call.model_db)
       IN \E i \in DOMAIN fps, j \in DOMAIN fps :
             /\ i <= j
             /\ call' = [call EXCEPT
                           !.pc = "set_filters",
                           !.given = SampleParams(fps, {i, j}),
                           !.filters = Collect(fps, SampleParams(fps, {i, j}), 1)]
    /\ UNCHANGED <<rows, inflight, response>>

\* set_status and set_filters of _get_list on the mapping the dependency gave
CallSetFilters ==
    /\ call.fn = "list_filters"
    /\ call.pc = "set_filters"
    /\ LET s1 == set_status(select, call.model_db, "active")
           r == IF s1.ok THEN set_filters(s1.statement, call.model_db, call.filters)
                ELSE s1
       IN call' = [call EXCEPT !.pc = "done", !.code = IF r.ok THEN 200 ELSE r.code]
    /\ UNCHANGED <<rows, inflight, response>>

NextAccept == CallCollect \/ CallSetFilters

SpecAccept == InitAccept /\ [][NextAccept]_vars

\* C15 (as claimed): every filter mapping the collect function of a list
\* endpoint returns is accepted by set_filters: of each key split on "__", the
\* first segment is the name of a column of the model outside the excluded
\* ones and the second, when there is one, is one of eq, ilike, in, gte, lte,
\* gt, lt; and set_filters does not answer 422.
C15_CollectAccepted ==
    (call.fn = "list_filters" /\ call.pc = "done")
        => /\ call.code # 422
           /\ \A i \in DOMAIN call.filters :
                 LET elems == SplitStr(call.filters[i].key, Str("__"))
                 IN /\ \E j \in DOMAIN call.model_db :
                          /\ call.model_db[j].name \notin AuditColumns
                          /\ Str(call.model_db[j].name) = elems[1]
                    /\ Len(elems) > 1 =>
                          elems[2] \in {Str(o) : o \in {"eq", "ilike", "in", "gte",
                                                        "lte", "gt", "lt"}}

\* ------------------------------- two concurrent requests on the same row
\* Two sessions, each with one delete request, or each with one restore
\* request, for the same id.  call.before is the status of the row when the
\* two requests arrive.
Requests == {1, 2}

InitConcurrent ==
    /\ rows \in Tables
    /\ inflight = [s \in Requests |-> <<>>]
    /\ response = [s \in Requests |-> NoResponse]
    /\ \E op \in {"delete", "restore"}, id \in Ids :
          call = [fn |-> "concurrent", op |-> op, id |-> id,
                  before |-> IF id \in DOMAIN rows THEN rows[id].status_id ELSE "absent"]

\* the request of session r arrives and runs its select
ConcurrentSelect(r) ==
    /\ call.fn = "concurrent"
    /\ response[r].op = "none"
    /\ IF call.op = "delete" THEN _delete_one(r, call.id) ELSE _restore_one(r, call.id)

\* the request of session r commits
ConcurrentCommit(r) ==
    /\ call.fn = "concurrent"
    /\ \E fault \in CommitFaults :
          IF call.op = "delete" THEN _delete_one_commit(r, fault)
          ELSE _restore_one_commit(r, fault)

\* the request of session r refreshes its row and answers
ConcurrentRefresh(r) ==
    /\ call.fn = "concurrent"
    /\ \E fault \in RefreshFaults :
          IF call.op = "delete" THEN _delete_one_refresh(r, fault)
          ELSE _restore_one_refresh(r, fault)

NextConcurrent ==
    \E r \in Requests : ConcurrentSelect(r) \/ ConcurrentCommit(r) \/ ConcurrentRefresh(r)

SpecConcurrent == InitConcurrent /\ [][NextConcurrent]_vars

\* C16 (as claimed): of two concurrent deletes of a row that is not deleted, and
\* of two concurrent restores of a deleted row, exactly one is answered with
\* success and the other with 404, in every interleaving in which the storage
\* layer raises nothing.
C16_ExactlyOneSucceeds ==
    (/\ call.fn = "concurrent"
     /\ \A r \in Requests : response[r].op = call.op /\ response[r].code # 500
     /\ \/ call.op = "delete" /\ call.before \in {"active", "inactive"}
        \/ call.op = "restore" /\ call.before = "deleted")
        => \E r \in Requests :
              /\ response[r].code = 200
              /\ \A q \in Requests \ {r} : response[q].code = 404
====
